---- MODULE Spec2Model ----
(***************************************************************************)
(* Socket authentication state of the mgo driver (auth.go): the active     *)
(* credentials (socket.creds), the pending-logout queue (socket.logout),   *)
(* the socket lock, the login flows with their round trips through         *)
(* loginRun, and the socket's reply-dispatch context that runs the reply   *)
(* callbacks one at a time.                                                *)
(***************************************************************************)
EXTENDS Integers, Sequences, FiniteSets, TLC

\* ------------------------------------------------------------------ bounds

\* Calls (Login, Logout, LogoutAll, flushLogout) made in one behaviour of Spec.
MaxOps == 3

\* Calls made in one behaviour of the single-caller specification SpecSeq.
MaxOpsSeq == 6

\* Commands one SASL login of a single caller may send before the peer stops
\* answering "ok, not done" (the peer then reports done or an error).
MaxRounds == 4

\* The same with two callers on the socket.
MaxRoundsShared == 2

\* Calls made on the socket where the progress of two callers is followed.
MaxOpsLive == 2

\* ------------------------------------------------------------------ values

Procs == {"p1", "p2"}

Sources == {"db1", "db2"}

LegacyMechanisms == {"MONGODB-CR", "MONGO-CR"}

Mechanisms == {"", "SCRAM-SHA-1", "PLAIN", "MONGODB-X509", "GSSAPI"} \cup LegacyMechanisms

\* Credential (the fields Login compares with ==).
Credential(user, source, mechanism) ==
    [Username |-> user, Password |-> "pw", Source |-> source,
     Mechanism |-> mechanism, Service |-> "", ServiceHost |-> ""]

\* The credentials callers pass to Login: every mechanism for u1 on db1, a
\* second principal on db1, and a credential on a second namespace.
CredInputs ==
    {Credential("u1", "db1", m) : m \in Mechanisms}
        \cup {Credential("u2", "db1", "PLAIN")}
        \cup {Credential("u1", "db2", "PLAIN")}

NoCred == Credential("", "", "")

ConversationIds == {1, 2}

\* saslResult / authResult as decoded from one reply document.  authResult
\* has no field for "code": loginPlain and loginX509 read Ok only.
ZeroResult == [Ok |-> FALSE, NotOk |-> FALSE, Done |-> FALSE, ConversationId |-> 0]

\* The reply documents the peer sends: the good ones (ok, code 0) with and
\* without done and with a conversation id of ids, and the bad ones (ok
\* false, or a nonzero code with ok true or false), which all carry done.
Replies(ids) ==
    [Ok : {TRUE}, NotOk : {FALSE}, Done : BOOLEAN, ConversationId : ids]
        \cup [Ok : BOOLEAN, NotOk : {TRUE}, Done : {TRUE}, ConversationId : {1}]
        \cup [Ok : {FALSE}, NotOk : {FALSE}, Done : {TRUE}, ConversationId : {1}]

ZeroCmd == [Start |-> 0, Continue |-> 0, ConversationId |-> 0, Mechanism |-> ""]

\* ----------------------------------------------------------- pure helpers

RemoveAt(s, i) == SubSeq(s, 1, i - 1) \o SubSeq(s, i + 1, Len(s))

SourceIndexes(cs, db) == {i \in 1..Len(cs) : cs[i].Source = db}

CredIndexes(cs, c) == {i \in 1..Len(cs) : cs[i] = c}

Min(S) == CHOOSE x \in S : \A y \in S : x <= y

\* dropAuth: removes the first credential of namespace db from socket.creds.
dropAuth(cs, db) ==
    IF SourceIndexes(cs, db) = {}
    THEN [creds |-> cs, cred |-> NoCred, found |-> FALSE]
    ELSE [creds |-> RemoveAt(cs, Min(SourceIndexes(cs, db))),
          cred |-> cs[Min(SourceIndexes(cs, db))], found |-> TRUE]

\* dropLogout: removes the first credential equal to c from socket.logout.
dropLogout(lg, c) ==
    IF CredIndexes(lg, c) = {}
    THEN [logout |-> lg, found |-> FALSE]
    ELSE [logout |-> RemoveAt(lg, Min(CredIndexes(lg, c))), found |-> TRUE]

\* Login, lines 94-96: an unset mechanism becomes SCRAM-SHA-1.
DefaultMechanism(c) ==
    IF c.Mechanism = "" THEN [c EXCEPT !.Mechanism = "SCRAM-SHA-1"] ELSE c

\* The commit of a successful driver: dropAuth(cred.Source), then append.
CommitCreds(cs, c) == Append(dropAuth(cs, c.Source).creds, c)

\* op.collection = db + ".$cmd"
CmdCollection(db) == <<db, ".$cmd">>

\* One logout descriptor of flushLogout.
LogoutOp(c) == [query |-> [Logout |-> 1], collection |-> CmdCollection(c.Source), limit |-> -1]

\* ------------------------------------------------------------------- state

VARIABLES
    creds,        \* socket.creds
    logout,       \* socket.logout
    sockLocked,   \* the socket's mutex (socket.Lock / socket.Unlock)
    flow,         \* per caller: position and locals of its current call
    inflight,     \* callers whose command was sent and whose reply is due
    cb,           \* the caller whose reply callback the dispatch context runs
    opsLeft,      \* calls still allowed in this behaviour
    streak        \* single-caller history: Logout calls since the queue was empty

vars == <<creds, logout, sockLocked, flow, inflight, cb, opsLeft, streak>>

NoStreak == [ok |-> FALSE, dbs |-> <<>>]

\* No race of a Login and a Logout was started.
NoRace == [on |-> FALSE, creds |-> <<>>, logout |-> <<>>]

\* A caller between calls.  ret, nsent, chg, ops and closes describe the
\* call that returned last.
IdleFlow(pcv) ==
    [pc |-> pcv, op |-> "none", arg |-> NoCred, db |-> "",
     cred |-> NoCred,            \* Login's and the driver's local cred
     ret |-> "nil",              \* error returned ("nil": success)
     nsent |-> 0,                \* commands handed to socket.Query by this call
     chg |-> FALSE,              \* this call changed socket.creds or socket.logout
     ops |-> <<>>,               \* flushLogout's result
     q0 |-> FALSE,               \* socket.logout was empty when the call was made
     after |-> NoCred,           \* single caller: the call before was a successful
                                 \* Login of this credential
     redo |-> NoCred,            \* single caller: the two calls before were a
                                 \* successful Login(c) and, the queue being
                                 \* empty, Logout(c.Source)
     afterFlush |-> FALSE,       \* single caller: the call before was flushLogout
     st |-> [ok |-> FALSE, dbs |-> <<>>],  \* flushLogout: the streak it ended
     quirk |-> FALSE,            \* a reply of this call had ok true and a nonzero code
     race |-> NoRace,            \* Login racing a Logout: the socket when both were called
     kind |-> "none",            \* stepper built by loginSASL
     step |-> 0,                 \* scram.Client's step counter
     closes |-> 0,               \* calls of sasl.Close
     locked |-> FALSE,           \* loginSASL's local "locked"
     start |-> 1, done |-> FALSE,
     res |-> ZeroResult, cmd |-> ZeroCmd,
     replyErr |-> "nil"]

Others(f) == Procs \ {f}

Resting(f) == flow[f].pc \in {"idle", "done", "off"}

\* f is the only caller of the socket.
Single(f) == \A g \in Others(f) : flow[g].pc = "off"

Init ==
    /\ creds = <<>>
    /\ logout = <<>>
    /\ sockLocked = FALSE
    /\ flow = [f \in Procs |-> IdleFlow("idle")]
    /\ inflight = {}
    /\ cb = "none"
    /\ opsLeft = MaxOps
    /\ streak = NoStreak

InitLive ==
    /\ creds = <<>>
    /\ logout = <<>>
    /\ sockLocked = FALSE
    /\ flow = [f \in Procs |-> IdleFlow("idle")]
    /\ inflight = {}
    /\ cb = "none"
    /\ opsLeft = MaxOpsLive
    /\ streak = NoStreak

InitSeq ==
    /\ creds = <<>>
    /\ logout = <<>>
    /\ sockLocked = FALSE
    /\ flow = [f \in Procs |-> IdleFlow(IF f = "p1" THEN "idle" ELSE "off")]
    /\ inflight = {}
    /\ cb = "none"
    /\ opsLeft = MaxOpsSeq
    /\ streak = [ok |-> TRUE, dbs |-> <<>>]

\* ------------------------------------------------------------------- calls

\* The history a single caller carries into its next call; none is kept
\* with several callers.
LoggedIn(fl) ==
    IF fl.op = "Login" /\ fl.ret = "nil" THEN DefaultMechanism(fl.arg) ELSE NoCred

LoggedOut(fl) ==
    IF fl.op = "Logout" /\ fl.q0 /\ fl.after # NoCred /\ fl.db = fl.after.Source
    THEN fl.after ELSE NoCred

FreshStreak(lg) == IF lg = <<>> THEN [ok |-> TRUE, dbs |-> <<>>] ELSE NoStreak

InSeq(x, s) == \E i \in 1..Len(s) : s[i] = x

\* A caller enters one of the four operations and waits for socket.Lock().
Enter(f, opname, pcv, c, db) ==
    /\ flow[f].pc \in {"idle", "done"}
    /\ opsLeft > 0
    /\ opsLeft' = opsLeft - 1
    /\ flow' = [flow EXCEPT ![f] =
                   [IdleFlow(pcv) EXCEPT
                       !.op = opname, !.arg = c, !.cred = c, !.db = db,
                       !.q0 = (logout = <<>>),
                       !.after = IF Single(f) THEN LoggedIn(flow[f]) ELSE NoCred,
                       !.redo = IF Single(f) THEN LoggedOut(flow[f]) ELSE NoCred,
                       !.afterFlush = Single(f) /\ flow[f].op = "Flush"]]
    /\ UNCHANGED <<creds, logout, sockLocked, inflight, cb, streak>>

CallLogin(f) == \E c \in CredInputs : Enter(f, "Login", "Login92", c, c.Source)

CallLogout(f) == \E db \in Sources : Enter(f, "Logout", "Logout309", NoCred, db)

CallLogoutAll(f) == Enter(f, "LogoutAll", "LogoutAll319", NoCred, "")

CallFlush(f) == Enter(f, "Flush", "flushLogout329", NoCred, "")

\* The single caller calls Login(c) and, with nothing between the two calls,
\* a second caller calls Logout(c.Source); no call is made after these.
Fork(f) ==
    /\ Single(f)
    /\ flow[f].pc \in {"idle", "done"}
    /\ \E g \in Others(f), c \in CredInputs :
          flow' = [flow EXCEPT
                      ![f] = [IdleFlow("Login92") EXCEPT
                                 !.op = "Login", !.arg = c, !.cred = c, !.db = c.Source,
                                 !.q0 = (logout = <<>>),
                                 !.race = [on |-> TRUE, creds |-> creds, logout |-> logout]],
                      ![g] = [IdleFlow("Logout309") EXCEPT
                                 !.op = "Logout", !.db = c.Source,
                                 !.q0 = (logout = <<>>)]]
    /\ opsLeft' = 0
    /\ UNCHANGED <<creds, logout, sockLocked, inflight, cb, streak>>

\* The call returns err; its locals are gone, and what is kept describes it.
Return(fl, err) ==
    [IdleFlow("done") EXCEPT
        !.op = fl.op, !.arg = fl.arg, !.db = fl.db, !.cred = fl.cred,
        !.ret = err, !.nsent = fl.nsent, !.chg = fl.chg, !.ops = fl.ops,
        !.kind = fl.kind, !.closes = fl.closes,
        !.q0 = fl.q0, !.after = fl.after, !.redo = fl.redo,
        !.afterFlush = fl.afterFlush, !.st = fl.st, !.quirk = fl.quirk,
        !.race = fl.race]

\* ----------------------------------------------- Logout, LogoutAll, Flush

\* Logout(db): the whole body runs under the socket lock.
Logout(f) ==
    /\ flow[f].pc = "Logout309"
    /\ ~sockLocked
    /\ LET d == dropAuth(creds, flow[f].db)
       IN  /\ creds' = d.creds
           /\ logout' = IF d.found THEN Append(logout, d.cred) ELSE logout
           /\ flow' = [flow EXCEPT ![f] = [Return(@, "nil") EXCEPT !.chg = d.found]]
           /\ streak' =
                IF ~Single(f) THEN streak
                ELSE IF d.found /\ streak.ok /\ ~InSeq(flow[f].db, streak.dbs)
                     THEN [ok |-> TRUE, dbs |-> Append(streak.dbs, flow[f].db)]
                     ELSE FreshStreak(logout')
    /\ UNCHANGED <<sockLocked, inflight, cb, opsLeft>>

\* LogoutAll with socket.logout replaced by socket.creds at line 322.
LogoutAllDropsQueue(f) ==
    /\ flow[f].pc = "LogoutAll319"
    /\ ~sockLocked
    /\ IF Len(creds) > 0
       THEN /\ logout' = creds
            /\ creds' = <<>>
       ELSE UNCHANGED <<creds, logout>>
    /\ flow' = [flow EXCEPT ![f] = [Return(@, "nil") EXCEPT !.chg = (Len(creds) > 0)]]
    /\ streak' = IF Single(f) THEN FreshStreak(logout') ELSE streak
    /\ UNCHANGED <<sockLocked, inflight, cb, opsLeft>>

\* LogoutAll(): every active credential is appended to socket.logout.
LogoutAll(f) ==
    /\ flow[f].pc = "LogoutAll319"
    /\ ~sockLocked
    /\ IF Len(creds) > 0
       THEN /\ logout' = logout \o creds
            /\ creds' = <<>>
       ELSE UNCHANGED <<creds, logout>>
    /\ flow' = [flow EXCEPT ![f] = [Return(@, "nil") EXCEPT !.chg = (Len(creds) > 0)]]
    /\ streak' = IF Single(f) THEN FreshStreak(logout') ELSE streak
    /\ UNCHANGED <<sockLocked, inflight, cb, opsLeft>>

\* The descriptors flushLogout builds from the queue.
FlushOps(lg) == [i \in 1..Len(lg) |-> LogoutOp(lg[i])]

\* flushLogout without line 339: the queue is not truncated.
flushLogoutKeepsQueue(f) ==
    /\ flow[f].pc = "flushLogout329"
    /\ ~sockLocked
    /\ flow' = [flow EXCEPT ![f] =
                   [Return(@, "nil") EXCEPT !.ops = FlushOps(logout), !.st = streak]]
    /\ streak' = IF Single(f) THEN FreshStreak(logout) ELSE streak
    /\ UNCHANGED <<creds, logout, sockLocked, inflight, cb, opsLeft>>

\* flushLogout(): drains socket.logout into logout descriptors.
flushLogout(f) ==
    /\ flow[f].pc = "flushLogout329"
    /\ ~sockLocked
    /\ flow' = [flow EXCEPT ![f] =
                   [Return(@, "nil") EXCEPT !.ops = FlushOps(logout),
                                            !.chg = (Len(logout) > 0),
                                            !.st = streak]]
    /\ logout' = <<>>
    /\ streak' = IF Single(f) THEN FreshStreak(<<>>) ELSE streak
    /\ UNCHANGED <<creds, sockLocked, inflight, cb, opsLeft>>

\* ------------------------------------------------------------------- Login

\* Login, lines 97-103: an equal credential is already active.
AlreadyLoggedIn(cs, c) == InSeq(c, cs)

\* Login, lines 92-110, under the socket lock: the default mechanism, the
\* check of socket.creds, and the take-back from socket.logout.
Login(f) ==
    /\ flow[f].pc = "Login92"
    /\ ~sockLocked
    /\ LET c == DefaultMechanism(flow[f].cred)
           d == dropLogout(logout, c)
       IN  /\ IF AlreadyLoggedIn(creds, c)
              THEN /\ flow' = [flow EXCEPT ![f] = [Return(@, "nil") EXCEPT !.cred = c]]
                   /\ UNCHANGED <<creds, logout>>
              ELSE IF d.found
              THEN /\ logout' = d.logout
                   /\ creds' = Append(creds, c)
                   /\ flow' = [flow EXCEPT ![f] =
                                  [Return(@, "nil") EXCEPT !.cred = c, !.chg = TRUE]]
              ELSE /\ flow' = [flow EXCEPT ![f] = [@ EXCEPT !.pc = "Login115", !.cred = c]]
                   /\ UNCHANGED <<creds, logout>>
           /\ streak' = IF Single(f) THEN FreshStreak(logout') ELSE streak
    /\ UNCHANGED <<sockLocked, inflight, cb, opsLeft>>

\* Driver with "MONGO-CR" missing from the case at line 116.
DriverWithoutMongoCR(mechanism) ==
    CASE mechanism = "MONGODB-CR" -> "unsupported"
      [] mechanism = "PLAIN" -> "plain"
      [] mechanism = "MONGODB-X509" -> "x509"
      [] OTHER -> "sasl"

\* Login, lines 115-126: the driver the mechanism selects.
Driver(mechanism) ==
    CASE mechanism \in LegacyMechanisms -> "unsupported"
      [] mechanism = "PLAIN" -> "plain"
      [] mechanism = "MONGODB-X509" -> "x509"
      [] OTHER -> "sasl"

\* Login, lines 116-118: the legacy mechanisms fail without a driver.
LoginUnsupported(f) ==
    /\ flow[f].pc = "Login115"
    /\ Driver(flow[f].cred.Mechanism) = "unsupported"
    /\ flow' = [flow EXCEPT ![f] = Return(@, "ErrUnsupported")]
    /\ UNCHANGED <<creds, logout, sockLocked, inflight, cb, opsLeft, streak>>

\* The caller has handed one more command to socket.Query.
Sent(fl) == [fl EXCEPT !.nsent = @ + 1]

\* loginRun, lines 300-304: socket.Query either fails, and loginRun returns
\* its error, or the command is on the wire and the caller waits on mutex.
\* fl is the caller with its locals as they are when loginRun is called;
\* failed is the caller after its driver has returned loginRun's error.
Query(f, fl, failed) ==
    \E sent \in BOOLEAN :
        IF sent
        THEN /\ flow' = [flow EXCEPT ![f] = [Sent(fl) EXCEPT !.pc = "wait"]]
             /\ inflight' = inflight \cup {f}
        ELSE /\ flow' = [flow EXCEPT ![f] = failed]
             /\ UNCHANGED inflight

\* loginPlain: one saslStart command with mechanism PLAIN through loginRun.
loginPlain(f) ==
    /\ flow[f].pc = "Login115"
    /\ Driver(flow[f].cred.Mechanism) = "plain"
    /\ Query(f, flow[f], Return(Sent(flow[f]), "ErrSend"))
    /\ UNCHANGED <<creds, logout, sockLocked, cb, opsLeft, streak>>

\* loginX509: one authenticate command through loginRun.
loginX509(f) ==
    /\ flow[f].pc = "Login115"
    /\ Driver(flow[f].cred.Mechanism) = "x509"
    /\ Query(f, flow[f], Return(Sent(flow[f]), "ErrSend"))
    /\ UNCHANGED <<creds, logout, sockLocked, cb, opsLeft, streak>>

\* ---------------------------------------------------------------- steppers

\* Steps of the salted challenge-response exchange: client-first,
\* client-final, and the check of server-final.
ScramSteps == 3

\* scram.Client.Step with Client.Err: the client advances one step per call
\* until the exchange is over; a server message it cannot accept (from the
\* second step on) ends it with an error.  A finished client stays finished
\* and reports no error.
ScramClientStep(step) ==
    IF step >= ScramSteps
    THEN {[step |-> step, more |-> FALSE, err |-> FALSE]}
    ELSE {[step |-> step + 1, more |-> step + 1 < ScramSteps, err |-> FALSE]}
             \cup (IF step >= 1
                   THEN {[step |-> step + 1, more |-> FALSE, err |-> TRUE]}
                   ELSE {})

\* saslScram.Step: done is the negation of what the client returns.
ScramStep(fl) ==
    {[step |-> r.step, done |-> ~r.more, err |-> r.err] : r \in ScramClientStep(fl.step)}

\* The stepper of saslNew (sasl.New, an external mechanism): any answer.
\* Once the login has used up its rounds it is done or fails.
ExternalStep(fl, cap) ==
    {[step |-> fl.step, done |-> d, err |-> e] :
        d \in {x \in BOOLEAN : fl.nsent >= cap => x}, e \in BOOLEAN}

\* sasl.Step(res.Payload), line 213.
Step(fl, cap) == IF fl.kind = "scram" THEN ScramStep(fl) ELSE ExternalStep(fl, cap)

\* ------------------------------------------------------------- loginSASL

\* A return of loginSASL without the deferred sasl.Close() of line 185.
SaslExitWithoutClose(fl, err) == [Return(fl, err) EXCEPT !.locked = FALSE]

\* A return of loginSASL after the stepper was built: the deferred
\* lock(false) and the deferred sasl.Close().
SaslExit(fl, err) == [Return(fl, err) EXCEPT !.locked = FALSE, !.closes = @ + 1]

\* The command of lines 224-230.
SaslCmd(fl) ==
    [Start |-> fl.start, Continue |-> 1 - fl.start,
     ConversationId |-> fl.res.ConversationId, Mechanism |-> fl.cred.Mechanism]

\* Lines 222-232 without line 231: start stays 1.
AfterCmdKeepsStart(fl) ==
    [fl EXCEPT !.cmd = SaslCmd(fl), !.cred.Mechanism = "",
               !.locked = FALSE, !.res = ZeroResult]

\* Lines 222-232: lock(false), the command, start and cred.Mechanism.  The
\* old res is not read again: the next reply is decoded over all of it.
AfterCmd(fl) ==
    [fl EXCEPT !.cmd = SaslCmd(fl), !.start = 0, !.cred.Mechanism = "",
               !.locked = FALSE, !.res = ZeroResult]

\* lock(false) without the test of line 196: socket.Unlock() in any case.
UnlockUnconditionally(fl) == FALSE

\* lock(false), lines 195-204: socket.Unlock() when this login holds the lock.
Unlock(fl) == IF fl.locked THEN FALSE ELSE sockLocked

\* The rounds the peer grants a login of f.
RoundsCap(f) == IF Single(f) THEN MaxRounds ELSE MaxRoundsShared

\* One pass of the loop without the lock(false) of line 222: the command is
\* sent and the reply awaited with the socket lock held.
SaslLoopKeepsLock(f, fl) ==
    \E st \in Step(fl, RoundsCap(f)) :
        LET fs == [fl EXCEPT !.step = st.step, !.done = st.done]
        IN  IF st.err
            THEN /\ flow' = [flow EXCEPT ![f] = SaslExit(fs, "ErrStep")]
                 /\ sockLocked' = Unlock(fs)
                 /\ UNCHANGED <<creds, inflight>>
            ELSE IF st.done /\ fs.res.Done
            THEN /\ creds' = CommitCreds(creds, fs.cred)
                 /\ flow' = [flow EXCEPT ![f] = [SaslExit(fs, "nil") EXCEPT !.chg = TRUE]]
                 /\ sockLocked' = Unlock(fs)
                 /\ UNCHANGED inflight
            ELSE /\ fs.nsent < RoundsCap(f)
                 /\ \E sent \in BOOLEAN :
                       IF sent
                       THEN /\ flow' = [flow EXCEPT ![f] =
                                           [Sent(AfterCmd(fs)) EXCEPT !.pc = "wait",
                                                                      !.locked = fs.locked]]
                            /\ inflight' = inflight \cup {f}
                            /\ UNCHANGED sockLocked
                       ELSE /\ flow' = [flow EXCEPT ![f] =
                                           SaslExit(Sent(AfterCmd(fs)), "ErrSend")]
                            /\ sockLocked' = Unlock(fs)
                            /\ UNCHANGED inflight
                 /\ UNCHANGED creds

\* One pass of the loop from line 213 to the call of loginRun at line 233.
SaslLoop(f, fl) ==
    \E st \in Step(fl, RoundsCap(f)) :
        LET fs == [fl EXCEPT !.step = st.step, !.done = st.done]
        IN  IF st.err
            THEN /\ flow' = [flow EXCEPT ![f] = SaslExit(fs, "ErrStep")]
                 /\ sockLocked' = Unlock(fs)
                 /\ UNCHANGED <<creds, inflight>>
            ELSE IF st.done /\ fs.res.Done
            THEN /\ creds' = CommitCreds(creds, fs.cred)
                 /\ flow' = [flow EXCEPT ![f] = [SaslExit(fs, "nil") EXCEPT !.chg = TRUE]]
                 /\ sockLocked' = Unlock(fs)
                 /\ UNCHANGED inflight
            ELSE /\ fs.nsent < RoundsCap(f)
                 /\ sockLocked' = Unlock(fs)
                 /\ Query(f, AfterCmd(fs), SaslExit(Sent(AfterCmd(fs)), "ErrSend"))
                 /\ UNCHANGED creds

\* loginSASL, lines 172-184: saslNew fails for an external mechanism.
saslNewFails(f) ==
    /\ flow[f].pc = "Login115"
    /\ Driver(flow[f].cred.Mechanism) = "sasl"
    /\ flow[f].cred.Mechanism # "SCRAM-SHA-1"
    /\ flow' = [flow EXCEPT ![f] = Return(@, "ErrNew")]
    /\ UNCHANGED <<creds, logout, sockLocked, inflight, cb, opsLeft, streak>>

\* loginSASL, lines 172-233: the stepper is built, lock(true) takes the
\* socket lock, and the first pass of the loop runs.
loginSASL(f) ==
    /\ flow[f].pc = "Login115"
    /\ Driver(flow[f].cred.Mechanism) = "sasl"
    /\ ~sockLocked
    /\ SaslLoop(f, [flow[f] EXCEPT
                       !.kind = IF flow[f].cred.Mechanism = "SCRAM-SHA-1"
                                THEN "scram" ELSE "external",
                       !.locked = TRUE])
    /\ UNCHANGED <<logout, cb, opsLeft, streak>>

\* loginSASL, lines 241-249 and the next pass: the caller wakes from
\* loginRun with replyErr.
loginSASLResume(f) ==
    /\ flow[f].pc = "woken"
    /\ LET fl == flow[f]
       IN  IF fl.replyErr # "nil"
           THEN /\ flow' = [flow EXCEPT ![f] = SaslExit(fl, fl.replyErr)]
                /\ sockLocked' = Unlock(fl)
                /\ UNCHANGED <<creds, inflight>>
           ELSE IF fl.done /\ fl.res.Done
           THEN /\ creds' = CommitCreds(creds, fl.cred)
                /\ flow' = [flow EXCEPT ![f] = [SaslExit(fl, "nil") EXCEPT !.chg = TRUE]]
                /\ sockLocked' = Unlock(fl)
                /\ UNCHANGED inflight
           ELSE SaslLoop(f, fl)
    /\ UNCHANGED <<logout, cb, opsLeft, streak>>

\* ------------------------------------------------- loginRun's replyFunc

\* What the dispatch context hands to replyFunc: a transport error, a
\* document bson.Unmarshal rejects, or a reply document.  A peer that has
\* answered RoundsCap commands of a SASL login "ok, not done" stops doing so.
\* The peer of a single caller changes the conversation id at will; with
\* two callers it keeps to one id.
Outcomes(f) ==
    {[err |-> e, res |-> ZeroResult] : e \in {"ErrTransport", "ErrDecode"}}
        \cup {[err |-> "nil", res |-> r] :
                 r \in {x \in Replies(IF Single(f) THEN ConversationIds ELSE {1}) :
                           (flow[f].kind # "none" /\ flow[f].nsent >= RoundsCap(f))
                               => (x.Done \/ ~x.Ok \/ x.NotOk)}}

\* The one-command drivers calling loginRun again after an error.
WakeAndRetry(fl, err) ==
    IF fl.kind = "none"
    THEN IF err = "nil" THEN Return(fl, err) ELSE [fl EXCEPT !.pc = "Login115"]
    ELSE [fl EXCEPT !.pc = "woken", !.replyErr = err]

\* replyFunc ends (the deferred mutex.Unlock) and the caller wakes with
\* replyErr: the one-command drivers return it, loginSASL goes on.
Wake(fl, err) ==
    IF fl.kind = "none"
    THEN Return(fl, err)
    ELSE [fl EXCEPT !.pc = "woken", !.replyErr = err]

\* replyFunc, lines 282-293: the dispatch context picks the reply of one
\* command (the command, answered, is not read again: cmd is cleared).  With
\* an error, or a document that does not decode, the completion closure does
\* not run; otherwise the result is decoded and the closure is entered.
Deliver(f) ==
    /\ cb = "none"
    /\ f \in inflight
    /\ inflight' = inflight \ {f}
    /\ \E o \in Outcomes(f) :
          IF o.err # "nil"
          THEN /\ flow' = [flow EXCEPT ![f] = Wake([@ EXCEPT !.cmd = ZeroCmd], o.err)]
               /\ UNCHANGED cb
          ELSE /\ flow' = [flow EXCEPT ![f] =
                              [@ EXCEPT !.res = o.res, !.cmd = ZeroCmd,
                                        !.quirk = @ \/ (o.res.Ok /\ o.res.NotOk)]]
               /\ cb' = f
    /\ UNCHANGED <<creds, logout, sockLocked, opsLeft, streak>>

\* The test of the reply in the closures of loginPlain and loginX509
\* (authResult: Ok only).
PlainFailed(res) == ~res.Ok

\* The test of the reply in the closure of loginSASL, line 236.
SaslFailed(res) == ~res.Ok \/ res.NotOk

\* The closure with the commit moved above the test of res.Ok.
PlainClosureCommitsFirst(f) ==
    /\ cb = f
    /\ flow[f].kind = "none"
    /\ ~sockLocked
    /\ creds' = CommitCreds(creds, flow[f].cred)
    /\ flow' = [flow EXCEPT ![f] =
                   Wake([@ EXCEPT !.chg = TRUE],
                        IF ~flow[f].res.Ok THEN "ErrRemote" ELSE "nil")]
    /\ cb' = "none"
    /\ UNCHANGED <<logout, sockLocked, inflight, opsLeft, streak>>

\* The closure of loginPlain and loginX509, lines 145-152 and 160-167, run
\* by the dispatch context: the commit is made under the socket lock.
PlainClosure(f) ==
    /\ cb = f
    /\ flow[f].kind = "none"
    /\ IF PlainFailed(flow[f].res)
       THEN /\ flow' = [flow EXCEPT ![f] = Wake(@, "ErrRemote")]
            /\ UNCHANGED creds
       ELSE /\ ~sockLocked
            /\ creds' = CommitCreds(creds, flow[f].cred)
            /\ flow' = [flow EXCEPT ![f] = [Wake(@, "nil") EXCEPT !.chg = TRUE]]
    /\ cb' = "none"
    /\ UNCHANGED <<logout, sockLocked, inflight, opsLeft, streak>>

\* The closure of loginSASL without the lock(true) of line 235.
SaslClosureWithoutLock(f) ==
    /\ cb = f
    /\ flow[f].kind # "none"
    /\ flow' = [flow EXCEPT ![f] =
                   Wake(@, IF SaslFailed(flow[f].res) THEN "ErrRemote" ELSE "nil")]
    /\ cb' = "none"
    /\ UNCHANGED <<creds, logout, sockLocked, inflight, opsLeft, streak>>

\* The closure of loginSASL, lines 234-239, run by the dispatch context:
\* lock(true) takes the socket lock, which the caller keeps when it wakes.
SaslClosure(f) ==
    /\ cb = f
    /\ flow[f].kind # "none"
    /\ flow[f].locked \/ ~sockLocked
    /\ sockLocked' = TRUE
    /\ flow' = [flow EXCEPT ![f] =
                   Wake([@ EXCEPT !.locked = TRUE],
                        IF SaslFailed(flow[f].res) THEN "ErrRemote" ELSE "nil")]
    /\ cb' = "none"
    /\ UNCHANGED <<creds, logout, inflight, opsLeft, streak>>

\* ------------------------------------------------------------ specification

Next ==
    \E f \in Procs :
        \/ CallLogin(f)
        \/ CallLogout(f)
        \/ CallLogoutAll(f)
        \/ CallFlush(f)
        \/ Login(f)
        \/ LoginUnsupported(f)
        \/ loginPlain(f)
        \/ loginX509(f)
        \/ saslNewFails(f)
        \/ loginSASL(f)
        \/ loginSASLResume(f)
        \/ Deliver(f)
        \/ PlainClosure(f)
        \/ SaslClosure(f)
        \/ Logout(f)
        \/ LogoutAll(f)
        \/ flushLogout(f)

\* Two callers share the socket.
Spec == Init /\ [][Next]_vars

\* One caller uses the socket.
SpecSeq == InitSeq /\ [][Next]_vars

\* The steps taken for caller f once it is inside a call: its own, and those
\* of the dispatch context on the reply to its command.
Run(f) ==
    \/ Login(f)
    \/ LoginUnsupported(f)
    \/ loginPlain(f)
    \/ loginX509(f)
    \/ saslNewFails(f)
    \/ loginSASL(f)
    \/ loginSASLResume(f)
    \/ Deliver(f)
    \/ PlainClosure(f)
    \/ SaslClosure(f)
    \/ Logout(f)
    \/ LogoutAll(f)
    \/ flushLogout(f)

\* Two callers share the socket; a caller that can take a step is scheduled,
\* and the dispatch context delivers every reply and runs every callback it
\* can.
SpecLive == InitLive /\ [][Next]_vars /\ \A f \in Procs : WF_vars(Run(f))

\* One caller uses the socket; then a Login and a Logout of the Login's
\* source race on it.
NextRace == Next \/ \E f \in Procs : Fork(f)

SpecRace == InitSeq /\ [][NextRace]_vars

\* ------------------------------------------------------------------ claims

IsLogin(f) == flow[f].op = "Login"

Returned(f) == flow[f].pc = "done"

\* C1: a Login that directly follows a successful Login of an equal
\* credential (single caller, nothing in between) sends no command, changes
\* neither socket.creds nor socket.logout, and returns success.
C1_SecondLoginIsNoOp ==
    \A f \in Procs :
        (IsLogin(f) /\ flow[f].after = DefaultMechanism(flow[f].arg))
            => /\ flow[f].nsent = 0
               /\ ~flow[f].chg
               /\ flow[f].pc \in {"Login92", "done"}
               /\ flow[f].ret = "nil"

\* C2: after a successful Login(c) and then Logout(c.Source) called with an
\* empty queue, Login(c) sends no command, returns success, and leaves the
\* queue empty and c active.
C2_LoginUndoesLogout ==
    \A f \in Procs :
        (IsLogin(f) /\ flow[f].redo = DefaultMechanism(flow[f].arg))
            => /\ flow[f].nsent = 0
               /\ flow[f].pc \in {"Login92", "done"}
               /\ Returned(f) => /\ flow[f].ret = "nil"
                                 /\ logout = <<>>
                                 /\ InSeq(DefaultMechanism(flow[f].arg), creds)

\* C3: socket.creds holds at most one credential per source namespace.
C3_OneCredentialPerSource ==
    \A i, j \in 1..Len(creds) : i # j => creds[i].Source # creds[j].Source

\* C4: with no operation in progress, no credential is both in socket.creds
\* and in socket.logout.
C4_ActiveAndPendingDisjoint ==
    (\A f \in Procs : Resting(f))
        => \A i \in 1..Len(creds) : ~InSeq(creds[i], logout)

\* Login(c) run alone on the socket s = [creds, logout], its driver
\* succeeding iff ok: the cache check, the take-back from socket.logout, or
\* the driver's commit (loginSASL commits cred with its Mechanism cleared).
SerialLogin(s, c, ok) ==
    LET n == DefaultMechanism(c)
        d == dropLogout(s.logout, n)
        stored == IF Driver(n.Mechanism) = "sasl" THEN [n EXCEPT !.Mechanism = ""] ELSE n
    IN  IF AlreadyLoggedIn(s.creds, n) THEN s
        ELSE IF d.found THEN [creds |-> Append(s.creds, n), logout |-> d.logout]
        ELSE IF ok /\ Driver(n.Mechanism) # "unsupported"
             THEN [creds |-> CommitCreds(s.creds, stored), logout |-> s.logout]
        ELSE s

\* Logout(db) run alone on the socket s.
SerialLogout(s, db) ==
    LET d == dropAuth(s.creds, db)
    IN  [creds |-> d.creds,
         logout |-> IF d.found THEN Append(s.logout, d.cred) ELSE s.logout]

\* The race of Login(c) and Logout(c.Source) is over and left the socket as
\* one of the two serial orders does.
RaceIsSerial(f) ==
    LET s0 == [creds |-> flow[f].race.creds, logout |-> flow[f].race.logout]
        c == flow[f].arg
        ok == flow[f].ret = "nil"
    IN  [creds |-> creds, logout |-> logout] \in
            {SerialLogout(SerialLogin(s0, c, ok), c.Source),
             SerialLogin(SerialLogout(s0, c.Source), c, ok)}

RaceOver(f) == flow[f].race.on /\ \A g \in Procs : flow[g].pc = "done"

\* C5: when Login(c) and Logout(c.Source) were called concurrently and both
\* have returned, socket.creds and socket.logout are what one of the two
\* serial orders gives from the state the calls were made in, and
\* socket.creds has at most one credential of c.Source.
C5_LoginLogoutRace ==
    \A f \in Procs :
        RaceOver(f) =>
            /\ RaceIsSerial(f)
            /\ Cardinality(SourceIndexes(creds, flow[f].arg.Source)) <= 1

\* C6: a Login that returned an error has changed neither socket.creds nor
\* socket.logout.
C6_FailedLoginChangesNothing ==
    \A f \in Procs :
        (IsLogin(f) /\ Returned(f) /\ flow[f].ret # "nil") => ~flow[f].chg

\* C6 witness: a Login failed on the peer's answer to its second command
\* while another credential was active.
C6_Witness ==
    \E f \in Procs :
        /\ IsLogin(f) /\ Returned(f)
        /\ flow[f].ret = "ErrRemote" /\ flow[f].nsent = 2
        /\ creds # <<>>

\* C7: a login that received a reply with ok true and a nonzero code commits
\* nothing and returns an error.
C7_OkWithCodeIsFailure ==
    \A f \in Procs :
        (IsLogin(f) /\ flow[f].quirk)
            => /\ ~flow[f].chg
               /\ Returned(f) => flow[f].ret # "nil"

\* C8: a login with the built-in salted stepper sends no more commands than
\* the stepper's exchange has steps, whatever the peer answers.
C8_ScramRoundsBounded ==
    \A f \in Procs : flow[f].kind = "scram" => flow[f].nsent <= ScramSteps

\* C9: a Login with a legacy mechanism sends no command, changes nothing and
\* returns the unsupported-mechanism error; no credential of a legacy
\* mechanism is in socket.creds or socket.logout.
C9_LegacyMechanismRejected ==
    /\ \A f \in Procs :
          (IsLogin(f) /\ flow[f].arg.Mechanism \in LegacyMechanisms)
              => /\ flow[f].nsent = 0
                 /\ ~flow[f].chg
                 /\ flow[f].pc \in {"Login92", "Login115", "done"}
                 /\ Returned(f) => flow[f].ret = "ErrUnsupported"
    /\ \A i \in 1..Len(creds) : creds[i].Mechanism \notin LegacyMechanisms
    /\ \A i \in 1..Len(logout) : logout[i].Mechanism \notin LegacyMechanisms

\* C9 witness: a legacy Login was rejected on a socket that has an active
\* and a pending credential.
C9_Witness ==
    \E f \in Procs :
        /\ IsLogin(f) /\ Returned(f)
        /\ flow[f].arg.Mechanism = "MONGO-CR"
        /\ flow[f].ret = "ErrUnsupported"
        /\ creds # <<>> /\ logout # <<>>

\* C10: flushLogout returns one logout descriptor per queued credential, in
\* queue order and addressed to its source, empties the queue and leaves
\* socket.creds alone; after k Logout calls on k distinct namespaces with an
\* active credential, made from an empty queue, these are the k descriptors
\* of those namespaces; a flushLogout right after a flushLogout returns none.
C10_Flush ==
    [][\A f \in Procs :
          (flow[f].pc = "flushLogout329" /\ flow'[f].pc = "done")
              => /\ creds' = creds
                 /\ logout' = <<>>
                 /\ Len(flow'[f].ops) = Len(logout)
                 /\ \A i \in 1..Len(logout) :
                       flow'[f].ops[i] =
                           [query |-> [Logout |-> 1],
                            collection |-> <<logout[i].Source, ".$cmd">>,
                            limit |-> -1]
                 /\ streak.ok =>
                       /\ Len(flow'[f].ops) = Len(streak.dbs)
                       /\ \A i \in 1..Len(streak.dbs) :
                             flow'[f].ops[i].collection = <<streak.dbs[i], ".$cmd">>
                 /\ flow[f].afterFlush => flow'[f].ops = <<>>]_vars

\* C10 witness: flushLogout returned two descriptors after two Logout calls
\* on two namespaces.
C10_Witness ==
    \E f \in Procs :
        /\ Returned(f) /\ flow[f].op = "Flush"
        /\ flow[f].st.ok /\ Len(flow[f].st.dbs) = 2
        /\ Len(flow[f].ops) = 2
        /\ logout = <<>>

\* The flow whose step changes socket.creds or socket.logout holds the socket
\* lock: its loginSASL carries it (locked), or the lock is free and the step
\* takes it.
MutatesUnderLock ==
    (creds' # creds \/ logout' # logout)
        => \E f \in Procs :
              /\ flow'[f] # flow[f]
              /\ IF flow[f].locked THEN sockLocked ELSE ~sockLocked

\* The socket lock is held exactly when one loginSASL carries it.
LockOwned ==
    /\ sockLocked <=> \E f \in Procs : flow[f].locked
    /\ \A f, g \in Procs : (flow[f].locked /\ flow[g].locked) => f = g

\* C11: a login waiting for a reply does not hold the socket lock; a
\* loginSASL woken by a reply whose closure ran holds it, from the closure
\* through the next Step to the commit or the next send; the closures of
\* loginPlain and loginX509 commit in the dispatch context; and every change
\* of socket.creds or socket.logout is made by a flow holding the lock.
C11_LockDiscipline ==
    /\ [](/\ LockOwned
          /\ \A f \in Procs :
                /\ (f \in inflight \/ cb = f) => (flow[f].pc = "wait" /\ ~flow[f].locked)
                /\ flow[f].pc = "wait" => (f \in inflight \/ cb = f)
                /\ (flow[f].pc = "woken" /\ flow[f].replyErr \in {"nil", "ErrRemote"})
                      => (flow[f].locked /\ sockLocked)
                /\ flow[f].locked => flow[f].pc = "woken")
    /\ [][/\ MutatesUnderLock
          /\ \A f \in Procs :
                (flow[f].kind = "none" /\ flow[f].op = "Login"
                   /\ flow[f].nsent = 1 /\ ~flow[f].chg /\ flow'[f].chg)
                    => cb = f]_vars

\* C11 witness: a loginSASL woken by its reply holds the lock after a round
\* trip while another caller waits for the lock at the entry of Logout.
C11_Witness ==
    \E f \in Procs, g \in Procs :
        /\ flow[f].pc = "woken" /\ flow[f].locked /\ sockLocked
        /\ flow[f].nsent = 2
        /\ flow[g].pc = "Logout309"
        /\ creds # <<>>

\* The handshake of f's Login is over with success as f takes this step: at
\* least one command was sent, the last reply was ok and, in loginSASL, that
\* reply is done and the stepper is done (it was before the reply, or its
\* next Step says so).
HandshakeDone(f) ==
    /\ flow[f].op = "Login" /\ flow[f].pc \in {"wait", "woken"}
    /\ flow'[f].pc = "done" /\ flow'[f].ret = "nil"
    /\ flow[f].nsent >= 1
    /\ flow[f].res.Ok
    /\ flow[f].kind # "none" =>
          /\ flow[f].res.Done
          /\ \/ flow[f].done
             \/ \E st \in Step(flow[f], RoundsCap(f)) : st.done /\ ~st.err

\* C12: a credential that enters socket.creds was taken back from
\* socket.logout or is the credential of a Login (as given, or with the
\* default mechanism) whose handshake ends with success in that step; a
\* credential that enters socket.logout comes from socket.creds.
C12_CommitOnlyOnSuccess ==
    [][/\ \A i \in 1..Len(creds') :
             ~InSeq(creds'[i], creds)
                 => \/ InSeq(creds'[i], logout) /\ ~InSeq(creds'[i], logout')
                    \/ \E f \in Procs :
                          /\ HandshakeDone(f)
                          /\ creds'[i] \in {flow[f].arg, DefaultMechanism(flow[f].arg)}
       /\ \A i \in 1..Len(logout') :
             ~InSeq(logout'[i], logout) => InSeq(logout'[i], creds)]_vars

\* f's loginSASL puts a command on the wire in this step.
SaslSends(f) ==
    /\ flow'[f].kind # "none"
    /\ flow'[f].pc = "wait" /\ flow[f].pc # "wait"

\* C13: the first command of a loginSASL has saslStart 1, saslContinue 0 and
\* the mechanism of the login; every later one has saslStart 0, saslContinue
\* 1, no mechanism, and the conversation id of the reply to the command
\* before it; no command on the wire has both or neither of start and
\* continue.
C13_SaslCommandSequence ==
    /\ [](\A f \in Procs :
             (flow[f].kind # "none" /\ flow[f].pc = "wait" /\ f \in inflight)
                 => /\ flow[f].cmd.Start + flow[f].cmd.Continue = 1
                    /\ flow[f].cmd.Start = 1 <=> flow[f].cmd.Mechanism # "")
    /\ [][\A f \in Procs :
             SaslSends(f) =>
                 flow'[f].cmd =
                     IF flow[f].nsent = 0
                     THEN [Start |-> 1, Continue |-> 0, ConversationId |-> 0,
                           Mechanism |-> DefaultMechanism(flow[f].arg).Mechanism]
                     ELSE [Start |-> 0, Continue |-> 1,
                           ConversationId |-> flow[f].res.ConversationId,
                           Mechanism |-> ""]]_vars

\* C13 witness: the third command of a login is on the wire with the
\* conversation id 2 that the second reply carried.
C13_Witness ==
    \E f \in Procs :
        /\ flow[f].kind = "scram" /\ flow[f].pc = "wait" /\ f \in inflight
        /\ flow[f].nsent = 3
        /\ flow[f].cmd.Continue = 1 /\ flow[f].cmd.ConversationId = 2

\* C14: a Login that built a stepper and has returned, with whatever result,
\* has called Close on it once; a login still running has not called it; a
\* Login that built no stepper never calls it.
C14_CloseExactlyOnce ==
    \A f \in Procs :
        IsLogin(f) =>
            flow[f].closes =
                IF flow[f].kind # "none" /\ Returned(f) THEN 1 ELSE 0

\* C14 witness: a login with the built-in stepper returned the stepper's
\* error after its second reply, the stepper closed.
C14_Witness ==
    \E f \in Procs :
        /\ IsLogin(f) /\ Returned(f)
        /\ flow[f].kind = "scram" /\ flow[f].ret = "ErrStep"
        /\ flow[f].nsent = 2 /\ flow[f].closes = 1

\* f is in a Login that selects loginPlain or loginX509.
OneCommandLogin(f) ==
    /\ IsLogin(f)
    /\ Driver(DefaultMechanism(flow[f].arg).Mechanism) \in {"plain", "x509"}

\* C15: a Login with PLAIN or MONGODB-X509 that passed the cache checks hands
\* one command to the socket, waits for one reply when the command was sent,
\* and returns when that reply's callback ends, whatever the reply; it
\* never sends a second command.
C15_OneRoundTrip ==
    /\ [](\A f \in Procs :
             OneCommandLogin(f) =>
                 /\ flow[f].nsent <= 1
                 /\ flow[f].pc \in {"Login92", "Login115", "wait", "done"}
                 /\ flow[f].pc \in {"Login92", "Login115"} => flow[f].nsent = 0
                 /\ flow[f].pc = "wait" => flow[f].nsent = 1)
    /\ [][\A f \in Procs :
             (OneCommandLogin(f) /\ flow'[f] # flow[f]) =>
                 /\ flow[f].pc = "Login115" =>
                       /\ flow'[f].nsent = 1
                       /\ \/ flow'[f].pc = "wait" /\ f \in inflight'
                          \/ flow'[f].pc = "done" /\ flow'[f].ret = "ErrSend"
                 /\ (flow[f].pc = "wait" /\ f \in inflight) =>
                       /\ f \notin inflight'
                       /\ \/ flow'[f].pc = "wait" /\ cb' = f
                          \/ flow'[f].pc = "done"
                                /\ flow'[f].ret \in {"ErrTransport", "ErrDecode"}
                 /\ (flow[f].pc = "wait" /\ cb = f) =>
                       /\ flow'[f].pc = "done" /\ flow'[f].nsent = 1
                       /\ flow'[f].ret \in {"nil", "ErrRemote"}]_vars

\* C15 witness: a certificate login returned the peer's refusal after one
\* command while a plaintext login had committed its credential.
C15_Witness ==
    \E f \in Procs :
        /\ IsLogin(f) /\ Returned(f)
        /\ flow[f].arg.Mechanism = "MONGODB-X509"
        /\ flow[f].ret = "ErrRemote" /\ flow[f].nsent = 1
        /\ \E i \in 1..Len(creds) : creds[i].Mechanism = "PLAIN"

\* C16: the step of LogoutAll leaves socket.logout as the old queue followed
\* by the old socket.creds in their order, empties socket.creds, and sends
\* nothing; with socket.creds empty it changes neither.
C16_LogoutAll ==
    [][\A f \in Procs :
          (flow[f].pc = "LogoutAll319" /\ flow'[f].pc = "done")
              => /\ logout' = logout \o creds
                 /\ creds' = <<>>
                 /\ flow'[f].nsent = 0 /\ inflight' = inflight
                 /\ creds = <<>> => logout' = logout
                 /\ flow'[f].ret = "nil"]_vars

\* C16 witness: LogoutAll, called with a credential queued, moved two
\* credentials behind it.
C16_Witness ==
    \E f \in Procs :
        /\ flow[f].op = "LogoutAll" /\ Returned(f)
        /\ flow[f].chg /\ ~flow[f].q0
        /\ creds = <<>> /\ Len(logout) = 3
        /\ logout[2].Source # logout[3].Source

\* C17: when a Login returns success from its driver, the credential the
\* driver appended to socket.creds is the credential of the cache checks:
\* the argument with an unset mechanism replaced by the default.
C17_StoredEqualsCompared ==
    [][\A f \in Procs :
          (IsLogin(f) /\ flow[f].pc \in {"wait", "woken"}
             /\ flow'[f].pc = "done" /\ flow'[f].ret = "nil")
              => /\ Len(creds') > 0
                 /\ creds'[Len(creds')] = DefaultMechanism(flow[f].arg)]_vars

\* C18: when the single caller's Logout(db) has returned, socket.creds holds
\* no credential of source db; and the step of a Logout that finds no
\* credential of db changes neither socket.creds nor socket.logout.
C18_LogoutPostcondition ==
    /\ [](\A f \in Procs :
             (Single(f) /\ flow[f].op = "Logout" /\ Returned(f))
                 => SourceIndexes(creds, flow[f].db) = {})
    /\ [][\A f \in Procs :
             (flow[f].pc = "Logout309" /\ flow'[f].pc = "done"
                /\ SourceIndexes(creds, flow[f].db) = {})
                 => (creds' = creds /\ logout' = logout)]_vars

\* C19: a Login that has returned, on whatever path, does not hold the
\* socket lock; with every caller at rest the lock is free; and the lock is
\* released only by the flow that holds it, and taken only when it is free.
C19_LockBalanced ==
    /\ [](/\ \A f \in Procs : Resting(f) => ~flow[f].locked
          /\ (\A f \in Procs : Resting(f)) => ~sockLocked
          /\ \A f \in Procs : flow[f].locked => sockLocked)
    /\ [][/\ (sockLocked /\ ~sockLocked')
                => \E f \in Procs : flow[f].locked /\ ~flow'[f].locked
          /\ (~sockLocked /\ sockLocked')
                => \E f \in Procs : ~flow[f].locked /\ flow'[f].locked
          /\ \A f \in Procs :
                (flow[f].locked /\ ~flow'[f].locked) => (sockLocked /\ ~sockLocked')]_vars

\* C19 witness: a loginSASL returned a decode error, its closure not run,
\* while the other caller's loginSASL holds the socket lock.
C19_Witness ==
    \E f \in Procs, g \in Procs :
        /\ IsLogin(f) /\ Returned(f)
        /\ flow[f].kind # "none" /\ flow[f].ret = "ErrDecode" /\ flow[f].nsent = 2
        /\ flow[g].locked /\ sockLocked

\* C20: while a caller is inside a call or a callback is pending, some step
\* of a caller or of the dispatch context can be taken; a callback the
\* dispatch context has entered ends; and every Login returns.
C20_NoDeadlock ==
    /\ []((\E f \in Procs : ~Resting(f)) => ENABLED (\E f \in Procs : Run(f)))
    /\ \A f \in Procs : (cb = f) ~> (cb = "none")
    /\ \A f \in Procs : (IsLogin(f) /\ ~Resting(f)) ~> Returned(f)

\* C20 witness: the dispatch context, in the callback of one login, waits
\* for the socket lock that the other caller's loginSASL holds.
C20_Witness ==
    \E f \in Procs, g \in Procs :
        /\ f # g
        /\ cb = f /\ flow[f].pc = "wait"
        /\ sockLocked /\ flow[g].locked /\ flow[g].pc = "woken"

====
